---- MODULE Spec2Model ----
(***************************************************************************)
(* Model of gm/rebaseline_server/compare_to_expectations.py: the Results   *)
(* class, which loads per-builder actual and expected GM results from two  *)
(* directory trees, reconciles them into image-pair records, and writes    *)
(* edited expectations back to disk.                                       *)
(*                                                                         *)
(* Encoding of JSON values.  TLC compares only values of like shape, so    *)
(* every optional value is a tuple of strings: <<>> is None / null, a      *)
(* [hash_type, digest] pair is the 2-tuple <<hash_type, digest>>, and a    *)
(* key that is missing from a mapping is the 1-tuple <<"absent">>.         *)
(* Strings that the code takes apart (builder names, image file names) are *)
(* tuples of substrings, so that endswith / in / the file-name regular     *)
(* expression are computed and not assumed.                                *)
(***************************************************************************)
EXTENDS Naturals, Integers, Sequences, FiniteSets, TLC

VARIABLES
  actuals_root,           \* files under self._actuals_root: path -> file
  expected_root,          \* files under self._expected_root: path -> file
  constructed,            \* a Results object exists (its __init__ returned)
  results,                \* self._results: "all" and "failures" dicts
  timestamp,              \* self._timestamp
  actual_builder_dicts,   \* local of the last _load_actual_and_expected
  expected_builder_dicts, \* local of the last _load_actual_and_expected
  failed_pairs,           \* actual entries for which ImagePair() raises
  clock,                  \* int(time.time())
  warnings,               \* logging.warning records of the last load
  call,                   \* the last call made: operation and arguments
  raised,                 \* exception the last call raised, "none" if none
  written,                \* paths gm_json.WriteToFile wrote in the last call
  edits                   \* number of edit_expectations calls so far

vars == <<actuals_root, expected_root, constructed, results, timestamp,
          actual_builder_dicts, expected_builder_dicts, failed_pairs, clock,
          warnings, call, raised, written, edits>>

-----------------------------------------------------------------------------
(* Bounds of the model *)

MaxTime == 1            \* the clock reads 1..MaxTime
MaxReload == 1          \* reload_seconds is None or 0..MaxReload
MaxMods == 2            \* modifications per edit_expectations call
MaxEdits == 1           \* edit_expectations calls per behaviour
MaxFailed == 1          \* actual entries for which ImagePair() raises

-----------------------------------------------------------------------------
(* JSON keys and result types (results.py, gm_json.py, imagepair.py) *)

None == <<>>
AbsentKey == <<"absent">>

KEY__RESULT_TYPE__FAILED == "failed"
KEY__RESULT_TYPE__FAILUREIGNORED == "failure-ignored"
KEY__RESULT_TYPE__NOCOMPARISON == "no-comparison"
KEY__RESULT_TYPE__SUCCEEDED == "succeeded"

KEY__HEADER__RESULTS_ALL == "all"
KEY__HEADER__RESULTS_FAILURES == "failures"

\* sorted(actual_results_for_this_builder.keys())
ResultTypes == <<KEY__RESULT_TYPE__FAILED, KEY__RESULT_TYPE__FAILUREIGNORED,
                 KEY__RESULT_TYPE__NOCOMPARISON, KEY__RESULT_TYPE__SUCCEEDED>>

ResultTypeSet == {ResultTypes[i] : i \in DOMAIN ResultTypes}

EXPECTATION_FIELDS_PASSED_THRU_VERBATIM == {"bugs", "ignore-failure", "reviewed"}

Range(s) == {s[i] : i \in DOMAIN s}

-----------------------------------------------------------------------------
(* Builder names, as tuples of substrings, in sorted() order *)

B1 == <<"Test-B1">>
B2 == <<"Test-B2">>
B1Trybot == <<"Test-B1", "-Trybot">>
TrybotB1 == <<"-Trybot", "-B1">>       \* '-Trybot' not at the end
B_ASAN == <<"Test-", "ASAN">>
B_TSAN == <<"Test-", "TSAN", "-x86">>
B_Valgrind == <<"Test-", "Valgrind">>

\* the builder names of the model in the order sorted() gives them
\* ('-' < 'T'; 'Test-A' < 'Test-B' < 'Test-T' < 'Test-V'; 'Test-B1' is a
\* prefix of 'Test-B1-Trybot')
BuilderOrder == <<TrybotB1, B_ASAN, B1, B1Trybot, B2, B_TSAN, B_Valgrind>>

Builders == Range(BuilderOrder)

ignore_builder_no_tsan(builder) ==
  \/ (Len(builder) > 0 /\ builder[Len(builder)] = "-Trybot")
  \/ \E i \in DOMAIN builder : builder[i] = "Valgrind"
  \/ \E i \in DOMAIN builder : builder[i] = "ASAN"

ignore_builder(builder) ==
  \/ (Len(builder) > 0 /\ builder[Len(builder)] = "-Trybot")
  \/ \E i \in DOMAIN builder : builder[i] = "Valgrind"
  \/ \E i \in DOMAIN builder : builder[i] = "TSAN"
  \/ \E i \in DOMAIN builder : builder[i] = "ASAN"

-----------------------------------------------------------------------------
(* Image file names: results.IMAGE_FILENAME_FORMATTER '%s_%s.png' and      *)
(* results.IMAGE_FILENAME_RE '(\S+)_(\S+)\.png'                            *)

Tests == {<<"a">>, <<"b">>}
Configs == {<<"8888">>}

IMAGE_FILENAME_FORMATTER(test, config) == test \o <<"_">> \o config \o <<".png">>

\* the position of the last "_" that leaves a non-empty config: the first
\* group of the expression is greedy
LastUnderscore(name) ==
  LET cands == {i \in 2..(Len(name) - 2) : name[i] = "_"}
  IN  CHOOSE i \in cands : \A j \in cands : j <= i

IMAGE_FILENAME_RE(name) ==
  LET k == LastUnderscore(name)
  IN  [test |-> SubSeq(name, 1, k - 1), config |-> SubSeq(name, k + 1, Len(name) - 1)]

\* the image names of the model in sorted() order
ImageOrder == <<IMAGE_FILENAME_FORMATTER(<<"a">>, <<"8888">>),
                IMAGE_FILENAME_FORMATTER(<<"b">>, <<"8888">>)>>

ImageNames == Range(ImageOrder)

-----------------------------------------------------------------------------
(* Image references: gm_json.CreateGmRelativeUrl / SplitGmRelativeUrl,     *)
(* '%s/%s/%s.png' % (hash_type, test_name, hash_digest)                    *)

HashType == "bitmap-64bitMD5"
Digests == {"111", "222"}
DigestPairs == {<<HashType, d>> : d \in Digests}

CreateGmRelativeUrl(test_name, hash_type, hash_digest) ==
  <<hash_type, "/">> \o test_name \o <<"/", hash_digest, ".png">>

SplitGmRelativeUrl(url) ==
  [test_name |-> SubSeq(url, 3, Len(url) - 3),
   hash_type |-> url[1],
   hash_digest |-> url[Len(url) - 1]]

\* if not hashtype_and_digest: return None
create_relative_url(hashtype_and_digest, test_name) ==
  IF hashtype_and_digest = None
  THEN None
  ELSE CreateGmRelativeUrl(test_name, hashtype_and_digest[1], hashtype_and_digest[2])

-----------------------------------------------------------------------------
(* Directory trees.  A path is the directories below the root and a file   *)
(* name (stem, extension); the layout is <root>/<builder>/<file>, and one  *)
(* builder directory also exists a second time below <root>/old.           *)

P_B1 == [dir |-> <<B1>>, file |-> <<"results", ".json">>]
P_B1old == [dir |-> <<(<<"old">>), B1>>, file |-> <<"results", ".json">>]
P_B1txt == [dir |-> <<B1>>, file |-> <<"notes", ".txt">>]
P_B2 == [dir |-> <<B2>>, file |-> <<"results", ".json">>]
P_B1Trybot == [dir |-> <<B1Trybot>>, file |-> <<"results", ".json">>]
P_TrybotB1 == [dir |-> <<TrybotB1>>, file |-> <<"results", ".json">>]
P_ASAN == [dir |-> <<B_ASAN>>, file |-> <<"results", ".json">>]
P_TSAN == [dir |-> <<B_TSAN>>, file |-> <<"results", ".json">>]
P_Valgrind == [dir |-> <<B_Valgrind>>, file |-> <<"results", ".json">>]

Paths == {P_B1, P_B1old, P_B1txt, P_B2, P_B1Trybot, P_TrybotB1, P_ASAN,
          P_TSAN, P_Valgrind}

\* os.path.basename(dirpath)
basename(path) == path.dir[Len(path.dir)]

\* fnmatch.filter(filenames, '*.json')
fnmatch(path) == path.file[2] = ".json"

\* a tree is [isdir |-> BOOLEAN, files |-> [Paths -> [exists, doc]]]
FilesOf(root) == {p \in Paths : root.files[p].exists}

\* the files os.walk() visits that pass the pattern and the builder filter
walked(root) == {p \in FilesOf(root) : fnmatch(p) /\ ~ignore_builder(basename(p))}

\* os.walk() fixes no order among directory entries: when several files
\* belong to one builder, any of them can be the last one encountered.
\* A walk order is given by the file met last for each builder.
WalkOrders(root) ==
  LET w == walked(root)
      bs == {basename(p) : p \in w}
      of(b) == {p \in w : basename(p) = b}
      several == {b \in bs : Cardinality(of(b)) > 1}
  IN  {[b \in bs |-> IF b \in several THEN g[b] ELSE CHOOSE p \in of(b) : TRUE] :
         g \in {h \in [several -> w] : \A b \in several : basename(h[b]) = b}}

\* _read_dicts_from_root: meta_dict[builder] = gm_json.LoadFromFile(fullpath),
\* the last assignment for a builder wins
read_dicts_from_root(root, last) ==
  IF ~root.isdir
  THEN [exc |-> "IOError", meta_dict |-> <<>>]
  ELSE [exc |-> "none",
        meta_dict |-> [b \in DOMAIN last |-> root.files[last[b]].doc]]

-----------------------------------------------------------------------------
(* Documents.                                                              *)
(* expected: [kind: "null" | "dict",                                       *)
(*            expected_results: "absent" | "null" | "dict",                *)
(*            entries: [ImageNames -> entry]]                              *)
(* entry:    [kind: "absent" | "notmapping" | "mapping",                   *)
(*            allowed_digests: "absent" | "null" | "list",                 *)
(*            digests: sequence of None or <<hash_type, digest>>,          *)
(*            fields: [EXPECTATION_FIELDS_PASSED_THRU_VERBATIM -> value]]  *)
(* actual:   [result type -> [ImageNames -> AbsentKey, None or a pair]]    *)

NoFields == [f \in EXPECTATION_FIELDS_PASSED_THRU_VERBATIM |-> "absent"]

NoEntry ==
  [kind |-> "absent", allowed_digests |-> "absent", digests |-> <<>>, fields |-> NoFields]

NoEntries == [n \in ImageNames |-> NoEntry]

NullDoc == [kind |-> "null", expected_results |-> "absent", entries |-> NoEntries]

NoActualResults == [t \in ResultTypeSet |-> [n \in ImageNames |-> AbsentKey]]

\* dict.get(field): None for a missing key and for a null value
get(fields, field) == IF fields[field] = "absent" THEN "null" ELSE fields[field]

\* lines 377-392: the try block; exc is the exception it ends with
lookup_expectations(expected_dicts, builder, image_name, test) ==
  LET fail(e) == [exc |-> e, url |-> None, expectations |-> None]
  IN  IF builder \notin DOMAIN expected_dicts THEN fail("KeyError")
      ELSE LET doc == expected_dicts[builder]
               ent == doc.entries[image_name]
           IN  IF doc.kind = "null" THEN fail("TypeError")
               ELSE IF doc.expected_results = "absent" THEN fail("KeyError")
               ELSE IF doc.expected_results = "null" THEN fail("TypeError")
               ELSE IF ent.kind = "absent" THEN fail("KeyError")
               ELSE IF ent.kind = "notmapping" THEN fail("TypeError")
               ELSE IF ent.allowed_digests = "absent" THEN fail("KeyError")
               ELSE IF ent.allowed_digests = "null" THEN fail("TypeError")
               ELSE IF ent.digests = <<>> THEN fail("IndexError")
               ELSE [exc |-> "none",
                     url |-> create_relative_url(ent.digests[1], test),
                     expectations |->
                       <<[f \in EXPECTATION_FIELDS_PASSED_THRU_VERBATIM |->
                            get(ent.fields, f)]>>]

\* line 392: except (KeyError, TypeError)
caught(exc) == exc \in {"KeyError", "TypeError"}

\* lines 412-417: the warning logged in the except block
no_expectations_warning(builder, result_type, image_name) ==
  IF result_type # KEY__RESULT_TYPE__NOCOMPARISON
  THEN <<[builder |-> builder, result_type |-> result_type, image_name |-> image_name]>>
  ELSE <<>>

\* lines 432-435
updated_result_type_keep(expected_image_relative_url, actual_image_relative_url, result_type) ==
  result_type

updated_result_type(expected_image_relative_url, actual_image_relative_url, result_type) ==
  IF expected_image_relative_url = actual_image_relative_url
  THEN KEY__RESULT_TYPE__SUCCEEDED
  ELSE result_type

\* lines 450-452: the pairs added to the two ImagePairSets
add_image_pair_all_to_failing(acc, image_pair, updated) ==
  [acc EXCEPT !.all = Append(@, image_pair), !.failing = Append(@, image_pair)]

add_image_pair(acc, image_pair, updated) ==
  [acc EXCEPT !.all = Append(@, image_pair),
              !.failing = IF updated # KEY__RESULT_TYPE__SUCCEEDED
                          THEN Append(@, image_pair) ELSE @]

\* lines 442-454 with an ImagePair() that raises: except Exception drops it
image_pair_failed_aborts(acc) == [acc EXCEPT !.exc = "Exception"]

image_pair_failed(acc) == acc

\* lines 368-454: the body of the innermost loop, for the actual entry e =
\* [builder, result_type, image_name]; failing is the set of entries for
\* which imagepair.ImagePair() raises
process_entry(acc, e, actual_dicts, expected_dicts, failing) ==
  LET parsed == IMAGE_FILENAME_RE(e.image_name)
      actual_image_relative_url ==
        create_relative_url(actual_dicts[e.builder][e.result_type][e.image_name],
                            parsed.test)
      look == lookup_expectations(expected_dicts, e.builder, e.image_name, parsed.test)
      logged == IF caught(look.exc)
                THEN acc.warnings \o
                     no_expectations_warning(e.builder, e.result_type, e.image_name)
                ELSE acc.warnings
      updated == updated_result_type(look.url, actual_image_relative_url, e.result_type)
      image_pair ==
        [imageAUrl |-> look.url,
         imageBUrl |-> actual_image_relative_url,
         expectations |-> look.expectations,
         extraColumns |-> [resultType |-> updated, builder |-> e.builder,
                           test |-> parsed.test, config |-> parsed.config]]
      acc1 == [acc EXCEPT !.warnings = logged]
  IN  IF acc.exc # "none" THEN acc
      ELSE IF look.exc # "none" /\ ~caught(look.exc)
           THEN [acc EXCEPT !.exc = look.exc]
      ELSE IF e \in failing THEN image_pair_failed(acc1)
      ELSE add_image_pair(acc1, image_pair, updated)

\* the entries of the actual results in loop order: sorted builders, sorted
\* result types, sorted image names (lines 354-367)
EntryAt(k) ==
  LET nt == Len(ResultTypes)
      ni == Len(ImageOrder)
  IN  [builder |-> BuilderOrder[((k - 1) \div (nt * ni)) + 1],
       result_type |-> ResultTypes[(((k - 1) \div ni) % nt) + 1],
       image_name |-> ImageOrder[((k - 1) % ni) + 1]]

AllEntries == [k \in 1..(Len(BuilderOrder) * Len(ResultTypes) * Len(ImageOrder)) |-> EntryAt(k)]

actual_entries(actual_dicts) ==
  SelectSeq(AllEntries,
            LAMBDA e : /\ e.builder \in DOMAIN actual_dicts
                       /\ actual_dicts[e.builder][e.result_type][e.image_name] # AbsentKey)

RECURSIVE reconcile_from(_, _, _, _, _, _)
reconcile_from(acc, entries, k, actual_dicts, expected_dicts, failing) ==
  IF k > Len(entries) THEN acc
  ELSE reconcile_from(process_entry(acc, entries[k], actual_dicts, expected_dicts, failing),
                      entries, k + 1, actual_dicts, expected_dicts, failing)

\* lines 333-454: both ImagePairSets, the warnings logged and the
\* exception that ended the loops, if any
reconcile(actual_dicts, expected_dicts, failing) ==
  reconcile_from([all |-> <<>>, failing |-> <<>>, warnings |-> <<>>, exc |-> "none"],
                 actual_entries(actual_dicts), 1, actual_dicts, expected_dicts, failing)

\* lines 456-459: ImagePairSet.as_dict() of both sets; no header yet
as_dict(image_pairs) == [imagepairs |-> image_pairs, header |-> None]

NoResults == [all |-> as_dict(<<>>), failures |-> as_dict(<<>>)]

-----------------------------------------------------------------------------
(* edit_expectations and _write_dicts_to_root *)

\* int(hash_digest): the decimal string of a URL as a number; the JSON
\* document holds the number, printed without leading zeros
int(hash_digest) == IF hash_digest = "0222" THEN "222" ELSE hash_digest

\* lines 139-146: the entry built from one modification
new_expectations(mod) ==
  LET split == SplitGmRelativeUrl(mod.new_image_url)
  IN  [kind |-> "mapping", allowed_digests |-> "list",
       digests |-> <<(<<split.hash_type, int(split.hash_digest)>>)>>,
       fields |-> [f \in EXPECTATION_FIELDS_PASSED_THRU_VERBATIM |->
                     IF mod.expectations[f] \in {"absent", "null"}
                     THEN "absent" ELSE mod.expectations[f]]]

\* lines 150-154: builder_dict with the entry for image_name replaced;
\* a missing, null or empty 'expected-results' becomes a fresh mapping
set_expectations_merge(builder_dict, image_name, entry) ==
  LET prior == builder_dict.entries[image_name]
  IN  [builder_dict EXCEPT
         !.expected_results = "dict",
         !.entries[image_name] =
            IF prior.kind = "mapping"
            THEN [entry EXCEPT !.fields =
                    [f \in EXPECTATION_FIELDS_PASSED_THRU_VERBATIM |->
                       IF entry.fields[f] = "absent" THEN prior.fields[f]
                       ELSE entry.fields[f]]]
            ELSE entry]

set_expectations(builder_dict, image_name, entry) ==
  [builder_dict EXCEPT !.expected_results = "dict", !.entries[image_name] = entry]

\* lines 132-154: one iteration of the loop over the modifications
apply_modification_any_builder(acc, mod) ==
  LET image_name == IMAGE_FILENAME_FORMATTER(mod.test, mod.config)
  IN  IF acc.exc # "none" THEN acc
      ELSE IF mod.builder \notin DOMAIN acc.dicts THEN acc
      ELSE IF acc.dicts[mod.builder].kind = "null"
           THEN [acc EXCEPT !.exc = "AttributeError"]
      ELSE [acc EXCEPT !.dicts[mod.builder] =
              set_expectations(@, image_name, new_expectations(mod))]

apply_modification(acc, mod) ==
  LET image_name == IMAGE_FILENAME_FORMATTER(mod.test, mod.config)
  IN  IF acc.exc # "none" THEN acc
      ELSE IF mod.builder \notin DOMAIN acc.dicts
           THEN [acc EXCEPT !.exc = "KeyError"]
      ELSE IF acc.dicts[mod.builder].kind = "null"
           THEN [acc EXCEPT !.exc = "AttributeError"]
      ELSE [acc EXCEPT !.dicts[mod.builder] =
              set_expectations(@, image_name, new_expectations(mod))]

RECURSIVE apply_modifications_reversed(_, _, _)
apply_modifications_reversed(acc, modifications, k) ==
  IF k > Len(modifications) THEN acc
  ELSE apply_modification(apply_modifications_reversed(acc, modifications, k + 1),
                          modifications[k])

RECURSIVE apply_modifications(_, _, _)
apply_modifications(acc, modifications, k) ==
  IF k > Len(modifications) THEN acc
  ELSE apply_modifications(apply_modification(acc, modifications[k]), modifications, k + 1)

\* lines 300-309: the files _write_dicts_to_root writes
files_to_write(meta_dict, root) ==
  {p \in walked(root) :
     basename(p) \in DOMAIN meta_dict /\ meta_dict[basename(p)].kind # "null"}

\* lines 313-319: sorted(meta_dict.keys()) != sorted(actual_builders_written),
\* compared as the number of times each builder occurs in either list
builders_mismatch(meta_dict, paths) ==
  \E b \in Builders :
    Cardinality({p \in paths : basename(p) = b}) # (IF b \in DOMAIN meta_dict THEN 1 ELSE 0)

\* _write_dicts_to_root: the tree afterwards, the paths written and the
\* exception raised
write_dicts_to_root(meta_dict, root) ==
  IF ~root.isdir
  THEN [exc |-> "IOError", root |-> root, written |-> {}]
  ELSE LET paths == files_to_write(meta_dict, root)
       IN  [exc |-> IF builders_mismatch(meta_dict, paths) THEN "KeyError" ELSE "none",
            root |-> [root EXCEPT !.files =
                        [p \in Paths |-> IF p \in paths
                                         THEN [exists |-> TRUE, doc |-> meta_dict[basename(p)]]
                                         ELSE @[p]]],
            written |-> paths]

\* edit_expectations: reload, apply every modification, write back; an
\* exception in the loop leaves before anything is written
edit_expectations(modifications, root, last) ==
  LET read == read_dicts_from_root(root, last)
      applied == apply_modifications([dicts |-> read.meta_dict, exc |-> "none"],
                                     modifications, 1)
  IN  IF read.exc # "none" THEN [exc |-> read.exc, root |-> root, written |-> {}]
      ELSE IF applied.exc # "none" THEN [exc |-> applied.exc, root |-> root, written |-> {}]
      ELSE write_dicts_to_root(applied.dicts, root)

-----------------------------------------------------------------------------
(* Packaged results *)

REBASELINE_SERVER_SCHEMA_VERSION_NUMBER == "schema-version"

\* lines 183-207: the header; reload_seconds is None or <<seconds>>, and
\* 0 seconds is false like None; the data hash is a function of the
\* image-pair list, modelled by the list itself
header(response_dict, results_type, time_updated, reload_seconds, is_editable, is_exported) ==
  [schemaVersion |-> REBASELINE_SERVER_SCHEMA_VERSION_NUMBER,
   timeUpdated |-> time_updated,
   timeNextUpdateAvailable |->
     IF reload_seconds # None /\ reload_seconds[1] # 0
     THEN <<time_updated + reload_seconds[1]>> ELSE None,
   type |-> results_type,
   dataHash |-> response_dict.imagepairs,
   isEditable |-> is_editable,
   isExported |-> is_exported]

\* lines 181-208: response_dict is self._results[results_type] itself, and
\* the header is stored into it
packaged(stored, results_type, time_updated, reload_seconds, is_editable, is_exported) ==
  [stored EXCEPT ![results_type].header =
     <<header(stored[results_type], results_type, time_updated, reload_seconds,
              is_editable, is_exported)>>]

-----------------------------------------------------------------------------
(* Documents and trees the behaviours start from *)

Fields(bugs, ignore, reviewed) ==
  [f \in EXPECTATION_FIELDS_PASSED_THRU_VERBATIM |->
     IF f = "bugs" THEN bugs ELSE IF f = "ignore-failure" THEN ignore ELSE reviewed]

Entry(digests, fields) ==
  [kind |-> "mapping", allowed_digests |-> "list", digests |-> digests, fields |-> fields]

E_111 == Entry(<<(<<HashType, "111">>)>>, Fields("[123]", "null", "true"))
E_222 == Entry(<<(<<HashType, "222">>), (<<HashType, "111">>)>>, NoFields)
E_Old == Entry(<<(<<HashType, "222">>)>>, Fields("[123]", "true", "true"))
E_NullDigest == Entry(<<None>>, NoFields)
E_EmptyList == Entry(<<>>, NoFields)
E_NullList == [E_EmptyList EXCEPT !.allowed_digests = "null"]
E_NoList == [E_EmptyList EXCEPT !.allowed_digests = "absent",
                                !.fields = Fields("absent", "true", "absent")]
E_NotMapping == [NoEntry EXCEPT !.kind = "notmapping"]

ExpectedDoc(ea, eb) ==
  [kind |-> "dict", expected_results |-> "dict",
   entries |-> [n \in ImageNames |-> IF n = ImageOrder[1] THEN ea ELSE eb]]

NoExpectedResults(how) == [kind |-> "dict", expected_results |-> how, entries |-> NoEntries]

ActualDoc(ta, da, tb, db) ==
  [t \in ResultTypeSet |->
     [n \in ImageNames |->
        IF n = ImageOrder[1] /\ t = ta THEN da
        ELSE IF n = ImageOrder[2] /\ t = tb THEN db
        ELSE AbsentKey]]

File(doc) == [exists |-> TRUE, doc |-> doc]

\* what the builders that are skipped hold, in either tree
IgnoredExpectedDoc == ExpectedDoc(E_111, NoEntry)
IgnoredActualDoc ==
  ActualDoc(KEY__RESULT_TYPE__FAILED, <<HashType, "222">>, "none", AbsentKey)

ExpectedTree(isdir, b1, b1old, b2) ==
  [isdir |-> isdir,
   files |-> [p \in Paths |->
     IF ~isdir THEN [exists |-> FALSE, doc |-> NullDoc]
     ELSE IF p = P_B1 THEN b1
     ELSE IF p = P_B1old THEN b1old
     ELSE IF p = P_B2 THEN b2
     ELSE IF p = P_TrybotB1 THEN File(ExpectedDoc(NoEntry, E_222))
     ELSE File(IgnoredExpectedDoc)]]

ActualTree(isdir, b1, b2) ==
  [isdir |-> isdir,
   files |-> [p \in Paths |->
     IF ~isdir THEN [exists |-> FALSE, doc |-> NoActualResults]
     ELSE IF p = P_B1 THEN b1
     ELSE IF p = P_B2 THEN b2
     ELSE IF p \in {P_B1old, P_TrybotB1} THEN [exists |-> FALSE, doc |-> NoActualResults]
     ELSE File(IgnoredActualDoc)]]

NoExpectedFile == [exists |-> FALSE, doc |-> NullDoc]
NoActualFile == [exists |-> FALSE, doc |-> NoActualResults]

ActualValues == {None} \cup DigestPairs

\* reconciliation inputs: every result type and every kind of digest for
\* the first image, against every kind of expectation entry
ReconcileActualB1 ==
  {ActualDoc(ta, da, tb, db) :
     ta \in ResultTypeSet, da \in ActualValues,
     tb \in {"none", KEY__RESULT_TYPE__FAILED, KEY__RESULT_TYPE__NOCOMPARISON},
     db \in {<<HashType, "111">>}}
  \cup {NoActualResults,
        [ActualDoc(KEY__RESULT_TYPE__FAILED, <<HashType, "111">>, "none", AbsentKey)
           EXCEPT ![KEY__RESULT_TYPE__SUCCEEDED][ImageOrder[1]] = <<HashType, "111">>]}

ReconcileActualB2 ==
  {NoActualFile,
   File(ActualDoc(KEY__RESULT_TYPE__FAILUREIGNORED, <<HashType, "222">>, "none", AbsentKey))}

ReconcileExpectedB1 ==
  {NoExpectedFile, File(NullDoc), File(NoExpectedResults("absent")),
   File(NoExpectedResults("null"))}
  \cup {File(ExpectedDoc(ea, eb)) :
          ea \in {NoEntry, E_NotMapping, E_NoList, E_NullList, E_EmptyList,
                  E_NullDigest, E_111, E_222},
          eb \in {NoEntry, E_111, E_EmptyList}}

ReconcileExpectedB2 == {NoExpectedFile, File(ExpectedDoc(E_222, NoEntry))}

\* write-back inputs: the layouts of the expected root
EditExpectedB1 == {NoExpectedFile, File(NullDoc), File(ExpectedDoc(E_Old, E_NoList))}

EditExpectedB1old == {NoExpectedFile, File(ExpectedDoc(E_111, NoEntry))}

EditExpectedB2 == {NoExpectedFile, File(NoExpectedResults("null"))}

EditActualB1 ==
  ActualDoc(KEY__RESULT_TYPE__FAILED, <<HashType, "111">>,
            KEY__RESULT_TYPE__NOCOMPARISON, <<HashType, "222">>)

EditActualB2 ==
  ActualDoc(KEY__RESULT_TYPE__FAILED, <<HashType, "222">>, "none", AbsentKey)

EditActualTree == ActualTree(TRUE, File(EditActualB1), File(EditActualB2))

\* the modifications a client can send
Modification(builder, test, digest, fields) ==
  [builder |-> builder, test |-> test, config |-> <<"8888">>,
   new_image_url |-> CreateGmRelativeUrl(test, HashType, digest),
   expectations |-> fields]

Modifications ==
  {Modification(B1, <<"a">>, "0222", Fields("[456]", "null", "false")),
   Modification(B1, <<"a">>, "111", NoFields),
   Modification(B2, <<"a">>, "111", NoFields),
   Modification(B_ASAN, <<"a">>, "111", NoFields)}

RECURSIVE SeqsUpTo(_, _)
SeqsUpTo(S, n) ==
  IF n = 0 THEN {<<>>}
  ELSE LET shorter == SeqsUpTo(S, n - 1)
       IN  shorter \cup {Append(q, x) : q \in shorter, x \in S}

-----------------------------------------------------------------------------
(* State *)

NoDicts(doc) == [b \in {} |-> doc]

NoCall ==
  [op |-> "none", results_type |-> "none", reload_seconds |-> None,
   is_editable |-> FALSE, is_exported |-> FALSE, modifications |-> <<>>]

InitObject ==
  /\ constructed = FALSE
  /\ results = NoResults
  /\ timestamp = 0
  /\ actual_builder_dicts = NoDicts(NoActualResults)
  /\ expected_builder_dicts = NoDicts(NullDoc)
  /\ warnings = <<>>
  /\ call = NoCall
  /\ raised = "none"
  /\ written = {}
  /\ edits = 0

\* the entries of the documents of two files, as the loop names them
EntriesOf(b1, b2) ==
  {e \in Range(AllEntries) :
     \/ e.builder = B1 /\ b1.exists /\ b1.doc[e.result_type][e.image_name] # AbsentKey
     \/ e.builder = B2 /\ b2.exists /\ b2.doc[e.result_type][e.image_name] # AbsentKey}

FailingSets(entries) == {F \in SUBSET entries : Cardinality(F) <= MaxFailed}

\* the trees the write-back behaviours start from
Init ==
  /\ actuals_root = EditActualTree
  /\ expected_root \in
       {ExpectedTree(TRUE, b1, b1old, b2) :
          b1 \in EditExpectedB1, b1old \in EditExpectedB1old, b2 \in EditExpectedB2}
       \cup {ExpectedTree(FALSE, NoExpectedFile, NoExpectedFile, NoExpectedFile)}
  /\ failed_pairs \in
       {{}, {[builder |-> B1, result_type |-> KEY__RESULT_TYPE__NOCOMPARISON,
              image_name |-> ImageOrder[2]]}}
  /\ clock = 1
  /\ InitObject

\* the trees the reconciliation behaviours start from
InitReconcile ==
  /\ \E b1 \in ReconcileActualB1, b2 \in ReconcileActualB2 :
       /\ actuals_root = ActualTree(TRUE, File(b1), b2)
       /\ failed_pairs \in FailingSets(EntriesOf(File(b1), b2))
  /\ expected_root \in
       {ExpectedTree(TRUE, b1, NoExpectedFile, b2) :
          b1 \in ReconcileExpectedB1, b2 \in ReconcileExpectedB2}
  /\ clock = 1
  /\ InitObject

\* the trees the read behaviours start from
InitRead ==
  /\ actuals_root \in {EditActualTree, ActualTree(FALSE, NoActualFile, NoActualFile)}
  /\ expected_root \in
       {ExpectedTree(TRUE, b1, NoExpectedFile, NoExpectedFile) :
          b1 \in {NoExpectedFile, File(ExpectedDoc(E_111, NoEntry))}}
  /\ failed_pairs = {}
  /\ clock \in 1..MaxTime
  /\ InitObject

-----------------------------------------------------------------------------
(* Operations *)

\* Results.__init__ (lines 83-93): load both trees, reconcile, keep the
\* results and the time.  An exception leaves no new object.
Construct ==
  \E last_a \in WalkOrders(actuals_root), last_e \in WalkOrders(expected_root) :
    LET read_a == read_dicts_from_root(actuals_root, last_a)
        read_e == read_dicts_from_root(expected_root, last_e)
        loaded == reconcile(read_a.meta_dict, read_e.meta_dict, failed_pairs)
        exc == IF read_a.exc # "none" THEN read_a.exc
               ELSE IF read_e.exc # "none" THEN read_e.exc
               ELSE loaded.exc
    IN  /\ call' = [NoCall EXCEPT !.op = "__init__"]
        /\ raised' = exc
        /\ actual_builder_dicts' = read_a.meta_dict
        /\ expected_builder_dicts' =
             IF read_a.exc # "none" THEN NoDicts(NullDoc) ELSE read_e.meta_dict
        /\ warnings' = IF read_a.exc # "none" \/ read_e.exc # "none"
                       THEN <<>> ELSE loaded.warnings
        /\ written' = {}
        /\ IF exc = "none"
           THEN /\ constructed' = TRUE
                /\ results' = [all |-> as_dict(loaded.all),
                               failures |-> as_dict(loaded.failing)]
                /\ timestamp' = clock
           ELSE UNCHANGED <<constructed, results, timestamp>>
        /\ UNCHANGED <<actuals_root, expected_root, failed_pairs, clock, edits>>

\* Results.edit_expectations (lines 130-155)
EditExpectations ==
  /\ constructed
  /\ edits < MaxEdits
  /\ \E modifications \in SeqsUpTo(Modifications, MaxMods),
        last \in WalkOrders(expected_root) :
       LET done == edit_expectations(modifications, expected_root, last)
       IN  /\ call' = [NoCall EXCEPT !.op = "edit_expectations",
                                     !.modifications = modifications]
           /\ raised' = done.exc
           /\ expected_root' = done.root
           /\ written' = done.written
           /\ edits' = edits + 1
           /\ UNCHANGED <<actuals_root, constructed, results, timestamp,
                          actual_builder_dicts, expected_builder_dicts,
                          failed_pairs, clock, warnings>>

ResultsTypes == {KEY__HEADER__RESULTS_ALL, KEY__HEADER__RESULTS_FAILURES}

\* Results.get_results_of_type (line 166)
GetResultsOfType ==
  /\ constructed
  /\ \E results_type \in ResultsTypes :
       /\ call' = [NoCall EXCEPT !.op = "get_results_of_type",
                                 !.results_type = results_type]
       /\ raised' = "none"
       /\ written' = {}
       /\ UNCHANGED <<actuals_root, expected_root, constructed, results, timestamp,
                      actual_builder_dicts, expected_builder_dicts, failed_pairs,
                      clock, warnings, edits>>

ReloadSeconds == {None} \cup {<<n>> : n \in 0..MaxReload}

\* Results.get_packaged_results_of_type (lines 181-208)
GetPackagedResultsOfType ==
  /\ constructed
  /\ \E results_type \in ResultsTypes, reload_seconds \in ReloadSeconds,
        is_editable \in BOOLEAN, is_exported \in BOOLEAN :
       /\ call' = [op |-> "get_packaged_results_of_type",
                   results_type |-> results_type, reload_seconds |-> reload_seconds,
                   is_editable |-> is_editable, is_exported |-> is_exported,
                   modifications |-> <<>>]
       /\ raised' = "none"
       /\ written' = {}
       /\ results' = packaged(results, results_type, timestamp, reload_seconds,
                              is_editable, is_exported)
       /\ UNCHANGED <<actuals_root, expected_root, constructed, timestamp,
                      actual_builder_dicts, expected_builder_dicts, failed_pairs,
                      clock, warnings, edits>>

Next == Construct \/ EditExpectations

NextReconcile == Construct

NextRead == Construct \/ GetResultsOfType \/ GetPackagedResultsOfType

\* construction and edits over the layouts of the expected root
Spec == Init /\ [][Next]_vars

\* construction over the contents of both trees
SpecReconcile == InitReconcile /\ [][NextReconcile]_vars

\* construction and both reads
SpecRead == InitRead /\ [][NextRead]_vars

-----------------------------------------------------------------------------
(* Reconciliation claims.  They speak of the load that has just run: the   *)
(* last call is __init__ and both trees were read.                         *)

Loaded == call.op = "__init__" /\ raised \notin {"IOError"}

LoadedOk == call.op = "__init__" /\ raised = "none"

\* the actual entries of the loaded tree, in loop order
Entries == actual_entries(actual_builder_dicts)

\* the entries whose ImagePair() did not raise: one record each
Emitted == SelectSeq(Entries, LAMBDA e : e \notin failed_pairs)

\* the expectation entry of an actual entry, NoEntry if there is none
ExpectationOf(e) ==
  IF e.builder \notin DOMAIN expected_builder_dicts THEN NoEntry
  ELSE LET doc == expected_builder_dicts[e.builder]
       IN  IF doc.kind = "dict" /\ doc.expected_results = "dict"
           THEN doc.entries[e.image_name] ELSE NoEntry

HasExpectation(e) == ExpectationOf(e).kind # "absent"

\* an entry with a first allowed digest
HasFirstDigest(e) ==
  /\ ExpectationOf(e).kind = "mapping"
  /\ ExpectationOf(e).allowed_digests = "list"
  /\ ExpectationOf(e).digests # <<>>

TestOf(e) == IMAGE_FILENAME_RE(e.image_name).test

ExpectedRef(e) ==
  IF HasFirstDigest(e) /\ ExpectationOf(e).digests[1] # None
  THEN CreateGmRelativeUrl(TestOf(e), ExpectationOf(e).digests[1][1],
                           ExpectationOf(e).digests[1][2])
  ELSE None

ActualRef(e) ==
  LET v == actual_builder_dicts[e.builder][e.result_type][e.image_name]
  IN  IF v = None THEN None ELSE CreateGmRelativeUrl(TestOf(e), v[1], v[2])

FinalType(k) == results.all.imagepairs[k].extraColumns.resultType

\* C1: after a load, every emitted record whose expected reference, built
\* from the first allowed digest, equals its actual reference is classified
\* SUCCEEDED, under whichever of the four labels the actual tree stored it.
C1_EqualRefsSucceed ==
  LoadedOk =>
    /\ Len(results.all.imagepairs) = Len(Emitted)
    /\ \A k \in DOMAIN Emitted :
         (HasFirstDigest(Emitted[k]) /\ ExpectedRef(Emitted[k]) = ActualRef(Emitted[k]))
           => FinalType(k) = KEY__RESULT_TYPE__SUCCEEDED

\* a record stored as FAILED whose references are equal and not null
C1_Witness ==
  /\ LoadedOk
  /\ \E k \in DOMAIN Emitted :
       /\ Emitted[k].result_type = KEY__RESULT_TYPE__FAILED
       /\ ExpectedRef(Emitted[k]) # None
       /\ ExpectedRef(Emitted[k]) = ActualRef(Emitted[k])
       /\ FinalType(k) = KEY__RESULT_TYPE__SUCCEEDED

\* C2: a record is reclassified to SUCCEEDED only when both references are
\* non-null and equal; in every other case, also with one or both
\* references null, its final classification is the actual classification.
C2_ReclassifyOnlyResolved ==
  LoadedOk =>
    \A k \in DOMAIN Emitted :
      k \in DOMAIN results.all.imagepairs =>
        FinalType(k) =
          IF /\ ExpectedRef(Emitted[k]) # None
             /\ ActualRef(Emitted[k]) # None
             /\ ExpectedRef(Emitted[k]) = ActualRef(Emitted[k])
          THEN KEY__RESULT_TYPE__SUCCEEDED
          ELSE Emitted[k].result_type

WarningsFor(e) ==
  Cardinality({i \in DOMAIN warnings :
                 /\ warnings[i].builder = e.builder
                 /\ warnings[i].result_type = e.result_type
                 /\ warnings[i].image_name = e.image_name})

\* C3: after reconciliation, every actual entry without an expectation
\* entry has no warning if its classification is NO_COMPARISON and exactly
\* one warning, naming builder, classification and image, otherwise; an
\* entry that has an expectation entry has no warning.
C3_WarningPerMissingExpectation ==
  Loaded =>
    \A k \in DOMAIN Entries :
      WarningsFor(Entries[k]) =
        IF ~HasExpectation(Entries[k])
           /\ Entries[k].result_type # KEY__RESULT_TYPE__NOCOMPARISON
        THEN 1 ELSE 0

\* an entry at which the load stops: its allowed-digests list is empty and
\* ImagePair() is never called for it
StopsLoad(e) ==
  /\ ExpectationOf(e).kind = "mapping"
  /\ ExpectationOf(e).allowed_digests = "list"
  /\ ExpectationOf(e).digests = <<>>

\* the actual tree without the entries whose ImagePair() raised
WithoutFailed ==
  [b \in DOMAIN actual_builder_dicts |->
     [t \in ResultTypeSet |->
        [n \in ImageNames |->
           LET e == [builder |-> b, result_type |-> t, image_name |-> n]
           IN  IF e \in failed_pairs /\ ~StopsLoad(e)
               THEN AbsentKey
               ELSE actual_builder_dicts[b][t][n]]]]

\* C4: a record whose ImagePair() raises is in neither partition, the
\* exception does not leave the constructor, and the load ends as it would
\* have had the actual tree not held that record: with the same two
\* partitions, every other record placed alike.
C4_FailedPairOnlyDropped ==
  (Loaded /\ failed_pairs # {}) =>
    LET without == reconcile(WithoutFailed, expected_builder_dicts, {})
    IN  /\ raised = without.exc
        /\ raised # "Exception"
        /\ raised = "none" =>
             /\ results.all.imagepairs = without.all
             /\ results.failures.imagepairs = without.failing
             /\ Len(results.all.imagepairs) =
                  Len(Entries) - Cardinality(failed_pairs \cap Range(Entries))

\* a failed record between two emitted records of its builder's neighbours
C4_Witness ==
  /\ LoadedOk
  /\ \E i, j, k \in DOMAIN Entries :
       /\ i < j /\ j < k
       /\ Entries[j] \in failed_pairs
       /\ Entries[i].builder = Entries[j].builder
       /\ Entries[k].builder # Entries[j].builder
  /\ Len(results.all.imagepairs) = Len(Entries) - 1

\* C10: every record whose ImagePair() succeeded is in the "all"
\* partition, and the "failures" partition is exactly the records of "all"
\* whose final classification is not SUCCEEDED, in the same order.
C10_FailuresAreNonSucceeded ==
  /\ constructed =>
       results.failures.imagepairs =
         SelectSeq(results.all.imagepairs,
                   LAMBDA r : r.extraColumns.resultType # KEY__RESULT_TYPE__SUCCEEDED)
  /\ LoadedOk => Len(results.all.imagepairs) = Len(Emitted)

\* both kinds of record in one load
C10_Witness ==
  /\ LoadedOk
  /\ \E i, j \in DOMAIN results.all.imagepairs :
       /\ results.all.imagepairs[i].extraColumns.resultType = KEY__RESULT_TYPE__SUCCEEDED
       /\ results.all.imagepairs[j].extraColumns.resultType # KEY__RESULT_TYPE__SUCCEEDED
  /\ Len(results.failures.imagepairs) > 0

\* an actual entry whose expectation is absent or malformed: no builder,
\* no 'expected-results' mapping, no entry for the image, an entry that is
\* not a mapping, or an allowed-digests list that is missing, null or empty
NoUsableExpectation(e) == ~HasFirstDigest(e)

\* C11: for every actual entry whose expectation is absent or malformed,
\* construction completes, and the entry (unless its ImagePair() raised)
\* has a record with a null expected reference and the classification the
\* actual tree stored it under.
C11_MalformedBaselineNeverAborts ==
  Loaded =>
    \A k \in DOMAIN Entries :
      NoUsableExpectation(Entries[k]) =>
        /\ raised = "none"
        /\ \A j \in DOMAIN Emitted :
             Emitted[j] = Entries[k] =>
               /\ j \in DOMAIN results.all.imagepairs
               /\ results.all.imagepairs[j].imageAUrl = None
               /\ FinalType(j) = Entries[k].result_type

-----------------------------------------------------------------------------
(* Write-back claims *)

Edited == call.op = "edit_expectations"

\* the builders of the tree _read_dicts_from_root returns for a root
LoadedBuilders(root) == {basename(p) : p \in walked(root)}

TargetsAbsentBuilder(modifications, root) ==
  \E i \in DOMAIN modifications : modifications[i].builder \notin LoadedBuilders(root)

\* C5: an edit_expectations call with a modification whose builder is not
\* in the tree reloaded from disk raises an error (KeyError whenever the
\* tree was read and every document in it is a mapping) and writes no
\* file: the expected root is as before the call.
C5_AbsentBuilderFails ==
  [][(Edited' /\ edits' = edits + 1
        /\ TargetsAbsentBuilder(call'.modifications, expected_root))
       => /\ raised' \in {"KeyError", "IOError", "AttributeError"}
          /\ (expected_root.isdir
                /\ \A p \in walked(expected_root) : expected_root.files[p].doc.kind = "dict")
               => raised' = "KeyError"
          /\ expected_root' = expected_root
          /\ written' = {}]_vars

\* an edit whose first modification names a loaded builder and whose second
\* names a builder with no file under the root, ended by KeyError
C5_Witness ==
  /\ Edited
  /\ raised = "KeyError"
  /\ written = {}
  /\ Len(call.modifications) = 2
  /\ call.modifications[1].builder \in LoadedBuilders(expected_root)
  /\ call.modifications[2].builder = B2
  /\ ~expected_root.files[P_B2].exists

\* a document after the modifications for its builder, in input order
RECURSIVE DocAfter(_, _, _, _)
DocAfter(doc, builder, modifications, k) ==
  IF k > Len(modifications) THEN doc
  ELSE DocAfter(IF modifications[k].builder = builder
                THEN set_expectations(doc,
                       IMAGE_FILENAME_FORMATTER(modifications[k].test, modifications[k].config),
                       new_expectations(modifications[k]))
                ELSE doc,
                builder, modifications, k + 1)

\* C6: edit_expectations creates no file, writes each loaded builder's
\* document only to the path it was loaded from (a written file holds its
\* own former document with the modifications for its builder applied, and
\* no builder is written to two paths), and returns without error only if
\* the builders written are exactly the builders loaded, each once.
C6_WritesOnlyLoadedPaths ==
  [][(Edited' /\ edits' = edits + 1) =>
       /\ \A p \in Paths : expected_root'.files[p].exists => expected_root.files[p].exists
       /\ \A p \in written' :
            /\ expected_root'.files[p].doc =
                 DocAfter(expected_root.files[p].doc, basename(p), call'.modifications, 1)
            /\ \A q \in written' : basename(q) = basename(p) => q = p
       /\ \A p \in Paths \ written' : expected_root'.files[p] = expected_root.files[p]
       /\ raised' = "none" =>
            /\ {basename(p) : p \in written'} = LoadedBuilders(expected_root)
            /\ \A p, q \in written' : basename(q) = basename(p) => q = p]_vars

\* the last modification for a builder and image name, if any
LastModFor(modifications, builder, image_name) ==
  LET hits == {i \in DOMAIN modifications :
                 /\ modifications[i].builder = builder
                 /\ IMAGE_FILENAME_FORMATTER(modifications[i].test, modifications[i].config)
                      = image_name}
  IN  IF hits = {} THEN 0 ELSE CHOOSE i \in hits : \A j \in hits : j <= i

\* the records of the object reflect the modifications: a record for a
\* modified (builder, image) carries the reference of the new digest and
\* the metadata supplied, null where none was supplied
Reflects(modifications) ==
  /\ Len(results.all.imagepairs) = Len(Emitted)
  /\ \A k \in DOMAIN Emitted :
       LET i == LastModFor(modifications, Emitted[k].builder, Emitted[k].image_name)
           split == SplitGmRelativeUrl(modifications[i].new_image_url)
           r == results.all.imagepairs[k]
       IN  i # 0 =>
             /\ r.imageAUrl = CreateGmRelativeUrl(TestOf(Emitted[k]), split.hash_type,
                                                  int(split.hash_digest))
             /\ r.expectations =
                  <<[f \in EXPECTATION_FIELDS_PASSED_THRU_VERBATIM |->
                       IF modifications[i].expectations[f] = "absent" THEN "null"
                       ELSE modifications[i].expectations[f]]>>

\* the trees _read_dicts_from_root can return for a root, one for each
\* order in which os.walk() can visit the files of a builder
Reloaded(root) ==
  {read_dicts_from_root(root, last).meta_dict : last \in WalkOrders(root)}

\* the entry a modification asks for: its digest alone in the allowed
\* digests, and the verbatim fields it supplies with a value that is not
\* null, no other field
SuppliedEntry(mod) ==
  LET split == SplitGmRelativeUrl(mod.new_image_url)
  IN  Entry(<<(<<split.hash_type, int(split.hash_digest)>>)>>,
            [f \in EXPECTATION_FIELDS_PASSED_THRU_VERBATIM |->
               IF mod.expectations[f] = "null" THEN "absent" ELSE mod.expectations[f]])

C7_EditKeepsSnapshot ==
  [][/\ (Edited' /\ edits' = edits + 1) =>
          (results' = results /\ timestamp' = timestamp /\ constructed' = constructed)
     /\ (Edited /\ raised = "none" /\ LoadedOk') =>
          \A modifications \in {call.modifications} : Reflects(modifications)']_vars

\* an edit gave builder B2 its first expectation, and an object constructed
\* after it shows that expectation
C7_Witness ==
  /\ LoadedOk
  /\ edits > 0
  /\ \E k \in DOMAIN results.all.imagepairs :
       /\ results.all.imagepairs[k].extraColumns.builder = B2
       /\ results.all.imagepairs[k].imageAUrl = CreateGmRelativeUrl(<<"a">>, HashType, "111")

\* C8: the read operations leave self._results as construction stored it:
\* no key is added to or changed in either partition.
C8_ReadsKeepResults ==
  [][(constructed /\ call'.op \in {"get_results_of_type", "get_packaged_results_of_type"})
       => results' = results]_vars

\* a builder name that ends in '-Trybot' or contains 'Valgrind', 'TSAN' or
\* 'ASAN'
Excluded(builder) ==
  \/ SubSeq(builder, Len(builder), Len(builder)) = <<"-Trybot">>
  \/ {"Valgrind", "TSAN", "ASAN"} \cap Range(builder) # {}

\* C9: an excluded builder is no key of a loaded tree, has no record in
\* either partition, and none of its files is written.
C9_ExcludedBuildersSkipped ==
  /\ \A b \in DOMAIN actual_builder_dicts \cup DOMAIN expected_builder_dicts : ~Excluded(b)
  /\ \A k \in DOMAIN results.all.imagepairs :
       ~Excluded(results.all.imagepairs[k].extraColumns.builder)
  /\ \A k \in DOMAIN results.failures.imagepairs :
       ~Excluded(results.failures.imagepairs[k].extraColumns.builder)
  /\ \A p \in written : ~Excluded(basename(p))

\* files of all four kinds of excluded builder exist in both trees, an
\* object was loaded from them and an edit has written files
C9_Witness ==
  /\ Edited
  /\ written # {}
  /\ Len(results.all.imagepairs) > 0
  /\ DOMAIN actual_builder_dicts # {}
  /\ \A p \in {P_B1Trybot, P_ASAN, P_TSAN, P_Valgrind} :
       expected_root.files[p].exists /\ actuals_root.files[p].exists

=============================================================================
